---- MODULE Spec2Model ----
(***************************************************************************)
(* Session router and weather_by_city tool of the MCP weather server       *)
(* (src/src/server.ts).                                                    *)
(*                                                                         *)
(* The server is a single event loop.  A handler runs without interruption *)
(* up to its next await, so every action below is one such run: the        *)
(* synchronous part of a request handler, the continuation after           *)
(* `await mcp.connect`, the continuation of the tool handler after each    *)
(* `await fetch`, or the transport's close notification.                    *)
(*                                                                         *)
(* StreamableHTTPServerTransport and McpServer belong to the MCP SDK; what  *)
(* the handlers see of them is modelled at the calls: handleRequest either *)
(* throws or answers, initializes its session once (generating the id and  *)
(* running onsessioninitialized in the same run), close() raises the close *)
(* notification, and a throwing tool handler yields an isError result.     *)
(*                                                                         *)
(* Session identifiers are positive integers: the n-th call of             *)
(* randomUUID() yields n (a UUID is a 122-bit random value, so two calls   *)
(* never agree and no client can present an identifier before the server   *)
(* sent it).  A request header is 0 when mcp-session-id is absent, Bogus   *)
(* when it is a string the generator never produces, or an identifier the  *)
(* server has sent.                                                        *)
(***************************************************************************)
EXTENDS Integers, Sequences, FiniteSets, TLC

\* ---------------------------------------------------------------- bounds
MaxTransports == 2      \* transports created in one run
MaxCalls      == 1      \* weather_by_city invocations in one run

\* ------------------------------------------------------------- constants
NoValidSessionCode == -32000
NoValidSessionMsg  == "Bad Request: No valid session ID provided"
Bogus              == -1
Undefined          == 0

VARIABLES
    transports,   \* the registry: session id -> transport (index into objs)
    objs,         \* every StreamableHTTPServerTransport created so far
    connecting,   \* POST handlers suspended at `await mcp.connect(transport)`
    uuidCount,    \* number of randomUUID() calls made
    issued,       \* log of the Mcp-Session-Id values sent, with their transport
    calls,        \* weather_by_city invocations
    last,         \* the HTTP response written most recently
    deleted,      \* the issued session ids for which a DELETE /mcp was handled
    crashed       \* an error escaped every handler (unhandled rejection)

vars == <<transports, objs, connecting, uuidCount, issued, calls, last, deleted, crashed>>

\* ------------------------------------------------------------ requests
\* z.string().min(2): the cities a client may send, as character sequences
Cities == {<<"Q">>, <<"L", "A">>}

\* JSON-RPC bodies: a well-formed initialize request, one that lacks its
\* params, a notification, and tools/call of weather_by_city.  The units
\* argument only selects the unit labels of the formatted text and is left out.
InitBody  == [method |-> "initialize", wellFormed |-> TRUE, city |-> <<>>]
BadInit   == [method |-> "initialize", wellFormed |-> FALSE, city |-> <<>>]
NotifBody == [method |-> "notifications/initialized", wellFormed |-> TRUE, city |-> <<>>]
ToolBody(c) == [method |-> "tools/call", wellFormed |-> TRUE, city |-> c]
Bodies == {InitBody, BadInit, NotifBody} \cup {ToolBody(c) : c \in Cities}

\* the session identifiers the server has sent so far
IssuedIds == {issued[i].sid : i \in 1..Len(issued)}
\* the values a client can put in the mcp-session-id header
Headers == {Undefined, Bogus} \cup IssuedIds

\* HTTP statuses the upstream collaborators answer with; Rejected: fetch itself fails
Statuses == {200, 503}
Rejected == -1

\* --------------------------------------------------------------- helpers
\* variant: the method name alone decides
isInitializeRequest_lax(body) == body.method = "initialize"
isInitializeRequest(body) == body.method = "initialize" /\ body.wellFormed

\* sessionId ? transports[sessionId] : undefined
Lookup(h) == IF h # Undefined /\ h \in DOMAIN transports THEN transports[h] ELSE Undefined

\* variant: a generator that returns its previous value again
randomUUID_repeat == IF uuidCount = 0 THEN 1 ELSE uuidCount
randomUUID == uuidCount + 1

\* onsessioninitialized: transports[sid] = transport
OnSessionInitialized(reg, sid, t) ==
    [s \in DOMAIN reg \cup {sid} |-> IF s = sid THEN t ELSE reg[s]]

\* variants: the entry is kept; the whole registry is dropped
Delete_keep(reg, key) == reg
Delete_all(reg, key) == <<>>
\* delete transports[key]
Delete(reg, key) == [s \in DOMAIN reg \ {key} |-> reg[s]]

\* variant: no cleanup on close
OnClose_skip(reg, o) == reg
\* transport.onclose: if (transport?.sessionId) delete transports[transport.sessionId]
OnClose(reg, o) == IF o.sessionId # Undefined THEN Delete(reg, o.sessionId) ELSE reg

NoError == [code |-> 0, message |-> "", id |-> "none"]
NoValidSession == [code |-> NoValidSessionCode, message |-> NoValidSessionMsg, id |-> "null"]

\* what one request was and how it was answered: the HTTP method, whether the
\* body was a well-formed initialize request, the mcp-session-id header, the
\* status and JSON-RPC error written, whether the registry held the header,
\* the transport the request reached, and whether an error was raised
Response(method, body, h, status, error, found, t, raised) ==
    [method |-> method, init |-> (body.method = "initialize" /\ body.wellFormed),
     header |-> h, status |-> status, error |-> error,
     found |-> found, transport |-> t, raised |-> raised]
NoBody == [method |-> "", wellFormed |-> TRUE, city |-> <<>>]

NewTransport == [sessionId |-> Undefined, initialized |-> FALSE, closed |-> FALSE]

\* ------------------------------------------------------ weather_by_city
ValidCity(c) == Len(c) >= 2
ok(status) == status >= 200 /\ status <= 299

NoResult == [isError |-> FALSE, text |-> <<>>]

\* the handler is entered and issues the geocoding fetch
StartCall(c) ==
    [city |-> c, pc |-> "geocode",
     geoCalls |-> 1, wxCalls |-> 0, geoStatus |-> 0, wxStatus |-> 0,
     loc |-> FALSE, result |-> NoResult]

\* variant: no early return when geocoding finds nothing
AfterGeocode_noreturn(call, status, matches) ==
    IF status = Rejected \/ ~ok(status)
    THEN [call EXCEPT !.pc = "done", !.geoStatus = status,
                      !.result = [isError |-> TRUE, text |-> <<"Geocoding failed: ", status>>]]
    ELSE [call EXCEPT !.pc = "forecast", !.geoStatus = status, !.loc = (matches > 0),
                      !.wxCalls = call.wxCalls + 1]
\* variant: a failed geocoding call is issued a second time
AfterGeocode_retry(call, status, matches) ==
    IF (status = Rejected \/ ~ok(status)) /\ call.geoCalls < 2
    THEN [call EXCEPT !.geoCalls = call.geoCalls + 1]
    ELSE IF status = Rejected \/ ~ok(status)
    THEN [call EXCEPT !.pc = "done", !.geoStatus = status,
                      !.result = [isError |-> TRUE, text |-> <<"Geocoding failed: ", status>>]]
    ELSE IF matches = 0
    THEN [call EXCEPT !.pc = "done", !.geoStatus = status,
                      !.result = [isError |-> FALSE, text |-> <<"No match for \"", call.city, "\"">>]]
    ELSE [call EXCEPT !.pc = "forecast", !.geoStatus = status, !.loc = TRUE,
                      !.wxCalls = call.wxCalls + 1]
\* continuation after `await fetch(geocoding)`
AfterGeocode(call, status, matches) ==
    IF status = Rejected
    THEN [call EXCEPT !.pc = "done", !.geoStatus = status,
                      !.result = [isError |-> TRUE, text |-> <<"fetch failed">>]]
    ELSE IF ~ok(status)
    THEN [call EXCEPT !.pc = "done", !.geoStatus = status,
                      !.result = [isError |-> TRUE, text |-> <<"Geocoding failed: ", status>>]]
    ELSE IF matches = 0
    THEN [call EXCEPT !.pc = "done", !.geoStatus = status,
                      !.result = [isError |-> FALSE,
                                  text |-> <<"No match for \"", call.city,
                                             "\". Try including state/country (e.g., \"Nashik, IN\").">>]]
    ELSE [call EXCEPT !.pc = "forecast", !.geoStatus = status, !.loc = TRUE,
                      !.wxCalls = call.wxCalls + 1]

\* variant: the forecast status is not looked at
AfterForecast_nocheck(call, status) ==
    [call EXCEPT !.pc = "done", !.wxStatus = status,
                 !.result = [isError |-> FALSE, text |-> <<"Weather for ", call.city>>]]
\* continuation after `await fetch(forecast)`
AfterForecast(call, status) ==
    IF status = Rejected
    THEN [call EXCEPT !.pc = "done", !.wxStatus = status,
                      !.result = [isError |-> TRUE, text |-> <<"fetch failed">>]]
    ELSE IF ~ok(status)
    THEN [call EXCEPT !.pc = "done", !.wxStatus = status,
                      !.result = [isError |-> TRUE, text |-> <<"Forecast failed: ", status>>]]
    ELSE [call EXCEPT !.pc = "done", !.wxStatus = status,
                      !.result = [isError |-> FALSE,
                                  text |-> <<"Weather for ", call.city>>]]

\* ------------------------------------------------------------------ Init
Init ==
    /\ transports = <<>>
    /\ objs = <<>>
    /\ connecting = {}
    /\ uuidCount = 0
    /\ issued = <<>>
    /\ calls = <<>>
    /\ last = Response("none", NoBody, Undefined, 0, NoError, FALSE, Undefined, FALSE)
    /\ deleted = {}
    /\ crashed = FALSE

\* --------------------------------------------------------------- actions
\* transport.handleRequest(req, res, req.body) for a POST, up to its first
\* suspension; found: whether the router took the transport from the registry.
\* It constrains every variable except connecting, deleted and crashed.
HandleRequest(t, h, body, found, throws) ==
    IF throws
    THEN \* the call rejects: catch (e) { res.status(500).send(e.message) }
         /\ last' = Response("POST", body, h, 500, NoError, found, t, TRUE)
         /\ UNCHANGED <<transports, objs, uuidCount, issued, calls>>
    ELSE IF isInitializeRequest(body)
    THEN IF objs[t].initialized
         THEN /\ last' = Response("POST", body, h, 400,
                                  [code |-> -32600,
                                   message |-> "Invalid Request: Server already initialized",
                                   id |-> "null"], found, t, FALSE)
              /\ UNCHANGED <<transports, objs, uuidCount, issued, calls>>
         ELSE \* this.sessionId = sessionIdGenerator(); onsessioninitialized(sessionId)
              LET sid == randomUUID IN
              /\ uuidCount' = uuidCount + 1
              /\ objs' = [objs EXCEPT ![t].sessionId = sid, ![t].initialized = TRUE]
              /\ transports' = OnSessionInitialized(transports, sid, t)
              /\ issued' = Append(issued, [sid |-> sid, t |-> t])
              /\ last' = Response("POST", body, h, 200, NoError, found, t, FALSE)
              /\ UNCHANGED calls
    ELSE IF ~objs[t].initialized
    THEN /\ last' = Response("POST", body, h, 400,
                             [code |-> -32000,
                              message |-> "Bad Request: Server not initialized",
                              id |-> "null"], found, t, FALSE)
         /\ UNCHANGED <<transports, objs, uuidCount, issued, calls>>
    ELSE IF h # objs[t].sessionId
    THEN /\ last' = Response("POST", body, h, 404,
                             [code |-> -32001, message |-> "Session not found",
                              id |-> "null"], found, t, FALSE)
         /\ UNCHANGED <<transports, objs, uuidCount, issued, calls>>
    ELSE IF body.method = "tools/call"
    THEN /\ IF ValidCity(body.city)
            THEN /\ Len(calls) < MaxCalls
                 /\ calls' = Append(calls, StartCall(body.city))
            ELSE UNCHANGED calls   \* rejected by the input schema, handler not entered
         /\ last' = Response("POST", body, h, 200, NoError, found, t, FALSE)
         /\ UNCHANGED <<transports, objs, uuidCount, issued>>
    ELSE \* a notification is accepted with 202; any other request is answered
         \* on the response stream, opened with 200
         /\ last' = Response("POST", body, h,
                              IF body.method = "initialize" THEN 200 ELSE 202,
                              NoError, found, t, FALSE)
         /\ UNCHANGED <<transports, objs, uuidCount, issued, calls>>

\* app.post("/mcp"), from its entry to `await mcp.connect(transport)` when it
\* creates a transport, and to the end of transport.handleRequest otherwise
PostMcp(h, body, throws) ==
    /\ ~crashed
    /\ UNCHANGED <<deleted, crashed>>
    /\ LET transport == Lookup(h) IN
       IF transport = Undefined /\ isInitializeRequest(body)
       THEN /\ Len(objs) < MaxTransports
            /\ objs' = Append(objs, NewTransport)
            /\ connecting' = connecting \cup
                   {[t |-> Len(objs) + 1, header |-> h, body |-> body]}
            /\ UNCHANGED <<transports, uuidCount, issued, calls, last>>
       ELSE IF transport = Undefined
       THEN /\ last' = Response("POST", body, h, 400, NoValidSession, FALSE, Undefined, FALSE)
            /\ UNCHANGED <<transports, objs, connecting, uuidCount, issued, calls>>
       ELSE /\ HandleRequest(transport, h, body, TRUE, throws)
            /\ UNCHANGED connecting

\* the same handler resumed after `await mcp.connect(transport)`
PostMcpConnected(p, connectFails, throws) ==
    /\ ~crashed
    /\ p \in connecting
    /\ connecting' = connecting \ {p}
    /\ UNCHANGED <<deleted, crashed>>
    /\ IF connectFails
       THEN /\ last' = Response("POST", p.body, p.header, 500, NoError, FALSE, p.t, TRUE)
            /\ UNCHANGED <<transports, objs, uuidCount, issued, calls>>
       ELSE HandleRequest(p.t, p.header, p.body, FALSE, throws)

\* transport.close(): the streams end and the close notification is raised
Close(t) == [objs EXCEPT ![t].closed = TRUE]

\* app.delete("/mcp").  close() runs the handler's onclose first and then the
\* protocol's; closeFails: the latter throws, so the promise close() returned,
\* which nothing awaits, rejects.
DeleteMcp(h, closeFails) ==
    /\ ~crashed
    /\ LET transport == Lookup(h) IN
       IF transport # Undefined
       THEN /\ objs' = Close(transport)
            /\ transports' = Delete(OnClose(transports, objs[transport]), h)
            /\ crashed' = closeFails
            /\ last' = Response("DELETE", NoBody, h, 204, NoError, TRUE, transport, closeFails)
       ELSE /\ last' = Response("DELETE", NoBody, h, 204, NoError, FALSE, Undefined, FALSE)
            /\ UNCHANGED <<transports, objs, crashed>>
    /\ deleted' = deleted \cup ({h} \cap IssuedIds)
    /\ UNCHANGED <<connecting, uuidCount, issued, calls>>

\* the transport's close notification, raised by the SDK when it closes a
\* session.  Until it is initialized a transport is reachable only from the
\* suspended handler that created it, which never closes it.
TransportClosed(t) ==
    /\ ~crashed
    /\ t \in 1..Len(objs)
    /\ objs[t].initialized
    /\ ~objs[t].closed
    /\ objs' = Close(t)
    /\ transports' = OnClose(transports, objs[t])
    /\ UNCHANGED <<connecting, uuidCount, issued, calls, last, deleted, crashed>>

\* weather_by_city resumed with the geocoding response
GeocodeResponse(c, status, matches) ==
    /\ ~crashed
    /\ c \in 1..Len(calls)
    /\ calls[c].pc = "geocode"
    /\ calls' = [calls EXCEPT ![c] = AfterGeocode(calls[c], status, matches)]
    /\ UNCHANGED <<transports, objs, connecting, uuidCount, issued, last, deleted, crashed>>

\* weather_by_city resumed with the forecast response
ForecastResponse(c, status) ==
    /\ ~crashed
    /\ c \in 1..Len(calls)
    /\ calls[c].pc = "forecast"
    /\ calls' = [calls EXCEPT ![c] = AfterForecast(calls[c], status)]
    /\ UNCHANGED <<transports, objs, connecting, uuidCount, issued, last, deleted, crashed>>

Next ==
    \/ \E h \in Headers, b \in Bodies, th \in BOOLEAN : PostMcp(h, b, th)
    \/ \E p \in connecting, cf \in BOOLEAN, th \in BOOLEAN : PostMcpConnected(p, cf, th)
    \/ \E h \in Headers, cf \in BOOLEAN : DeleteMcp(h, cf)
    \/ \E t \in 1..Len(objs) : TransportClosed(t)
    \/ \E c \in 1..Len(calls), s \in Statuses \cup {Rejected}, m \in 0..1 : GeocodeResponse(c, s, m)
    \/ \E c \in 1..Len(calls), s \in Statuses \cup {Rejected} : ForecastResponse(c, s)

Spec == Init /\ [][Next]_vars

\* ================================================================ claims
NoValidSessionError ==
    [code |-> -32000, message |-> "Bad Request: No valid session ID provided", id |-> "null"]

\* the step wrote a response
Responded == last' # last \/ deleted' # deleted

C2_FreshIdSameTransport ==
    /\ \A i, j \in 1..Len(issued) : i # j => issued[i].sid # issued[j].sid
    /\ \A i \in 1..Len(issued) :
          ~objs[issued[i].t].closed
             => /\ issued[i].sid \in DOMAIN transports
                /\ transports[issued[i].sid] = issued[i].t
    /\ (last.method = "POST" /\ last.found)
          => \E i \in 1..Len(issued) :
                issued[i].sid = last.header /\ issued[i].t = last.transport
    /\ (last.method = "POST" /\ last.init /\ ~last.found /\ last.status = 200)
          => \E i \in 1..Len(issued) : issued[i].t = last.transport

\* two sessions were issued and a later request on the first reached its transport
C2_Witness ==
    /\ Len(issued) = 2
    /\ last.method = "POST" /\ last.found /\ ~last.init
    /\ last.header = issued[1].sid
    /\ last.transport = issued[1].t
    /\ last.status = 202

\* C3: once DELETE /mcp bearing S has been handled, S is not in the registry,
\* and a later POST bearing S is treated as a POST bearing an id that was
\* never issued: no transport is found for it, and unless it is an initialize
\* request it is answered 400 with error -32000.
C3_DeletedIdUnknown ==
    /\ deleted \cap DOMAIN transports = {}
    /\ (last.method = "POST" /\ last.header \in deleted)
          => /\ ~last.found
             /\ ~last.init => /\ last.status = 400
                              /\ last.error = NoValidSessionError
                              /\ last.transport = Undefined

\* a request bearing a deleted session id was refused
C3_Witness ==
    /\ last.method = "POST" /\ last.header \in deleted
    /\ ~last.init /\ last.status = 400
    /\ \E t \in 1..Len(objs) : objs[t].sessionId = last.header /\ objs[t].closed

\* no two live transports hold the same session id
LiveUnique ==
    \A t1, t2 \in 1..Len(objs) :
        (/\ t1 # t2
         /\ objs[t1].initialized /\ ~objs[t1].closed
         /\ objs[t2].initialized /\ ~objs[t2].closed)
        => objs[t1].sessionId # objs[t2].sessionId

\* C4: at most one live transport per session id, and an id whose session was
\* destroyed (issued, and no longer in the registry) is never registered again.
C4_OneLiveNoReuse ==
    [][ /\ LiveUnique'
        /\ \A s \in IssuedIds : s \notin DOMAIN transports => s \notin DOMAIN transports' ]_vars

\* a session was destroyed and a session issued later is registered
C4_Witness ==
    \E s \in IssuedIds, s2 \in DOMAIN transports : s \notin DOMAIN transports /\ s2 > s

C6_ForecastAfterGeocode ==
    \A c \in 1..Len(calls) :
        LET k == calls[c] IN
        /\ k.wxCalls > 0 => (k.geoStatus >= 200 /\ k.geoStatus <= 299 /\ k.loc)
        /\ (k.pc = "done" /\ k.geoStatus >= 200 /\ k.geoStatus <= 299 /\ ~k.loc)
              => /\ ~k.result.isError
                 /\ Len(k.result.text) = 3
                 /\ k.result.text[2] = k.city
                 /\ k.result.text[3] = "\". Try including state/country (e.g., \"Nashik, IN\")."
                 /\ k.wxCalls = 0

\* an invocation ended with the no-match text
C6_Witness ==
    \E c \in 1..Len(calls) :
        /\ calls[c].pc = "done" /\ calls[c].geoStatus = 200 /\ ~calls[c].loc
        /\ ~calls[c].result.isError /\ calls[c].wxCalls = 0

\* an HTTP status outside 200..299
NonSuccess(status) == status > 0 /\ (status < 200 \/ status > 299)

UpstreamErrors ==
    \A c \in 1..Len(calls) :
        LET k == calls[c] IN
        /\ NonSuccess(k.geoStatus)
              => /\ k.pc = "done" /\ k.result.isError
                 /\ k.result.text = <<"Geocoding failed: ", k.geoStatus>>
                 /\ k.wxCalls = 0 /\ k.wxStatus = 0
        /\ NonSuccess(k.wxStatus)
              => /\ k.pc = "done" /\ k.result.isError
                 /\ k.result.text = <<"Forecast failed: ", k.wxStatus>>

\* C7: a non-success status from geocoding or forecast ends the invocation in
\* an error result whose message carries the status, no later step of the
\* invocation runs, and the step changes neither the registry nor a transport.
C7_UpstreamErrorAbortsCall ==
    [][ /\ UpstreamErrors'
        /\ (calls' # calls /\ Len(calls') = Len(calls))
              => (transports' = transports /\ objs' = objs /\ connecting' = connecting) ]_vars

\* a forecast failure ended an invocation while its session is registered
C7_Witness ==
    /\ \E c \in 1..Len(calls) :
          /\ calls[c].wxStatus = 503 /\ calls[c].result.isError
          /\ calls[c].result.text[2] = 503
    /\ DOMAIN transports # {}

\* C8 as stated: a finished invocation made each upstream call exactly once
C8_ExactlyOnceEach ==
    \A c \in 1..Len(calls) :
        calls[c].pc = "done" => (calls[c].geoCalls = 1 /\ calls[c].wxCalls = 1)

\* C8, amended: no call is repeated; the geocoding call is made exactly once
\* per invocation, and the forecast call exactly once when geocoding yielded a
\* location and not at all otherwise.
C8_NoRetry ==
    \A c \in 1..Len(calls) :
        LET k == calls[c] IN
        /\ k.geoCalls = 1
        /\ k.wxCalls <= 1
        /\ k.pc = "forecast" => k.wxCalls = 1
        /\ k.pc = "done"
              => (k.wxCalls = 1 <=> (k.geoStatus >= 200 /\ k.geoStatus <= 299 /\ k.loc))

\* an invocation ended on a geocoding failure, with one call made
C8_Witness ==
    \E c \in 1..Len(calls) :
        /\ calls[c].pc = "done" /\ calls[c].geoStatus = 503
        /\ calls[c].geoCalls = 1 /\ calls[c].wxCalls = 0

\* C9: an error raised while a request is handled is answered with HTTP 500
\* and does not escape the handler.
C9_ErrorsCaught == last.raised => (last.status = 500 /\ ~crashed)

RegistryConsistent ==
    \A s \in DOMAIN transports :
        /\ transports[s] \in 1..Len(objs)
        /\ objs[transports[s]].sessionId = s
        /\ ~objs[transports[s]].closed

\* C10: every registry entry maps S to a live transport whose session id is
\* S; an entry appears only in the step that initializes its transport,
\* disappears only in a step that closes its transport (DELETE bearing S, or
\* the close notification), and such a step changes no other entry.
C10_RegistryOwnership ==
    [][ /\ RegistryConsistent'
        /\ \A s \in DOMAIN transports \cup DOMAIN transports' :
              /\ (s \in DOMAIN transports /\ s \in DOMAIN transports')
                    => transports'[s] = transports[s]
              /\ (s \notin DOMAIN transports)
                    => LET t == transports'[s] IN
                       /\ t \in 1..Len(objs)
                       /\ objs[t].sessionId = Undefined
                       /\ objs' = [objs EXCEPT ![t].sessionId = s, ![t].initialized = TRUE]
                       /\ DOMAIN transports' = DOMAIN transports \cup {s}
              /\ (s \notin DOMAIN transports')
                    => LET t == transports[s] IN
                       /\ objs' = [objs EXCEPT ![t].closed = TRUE]
                       /\ \/ Responded /\ last'.method = "DELETE" /\ last'.header = s
                          \/ last' = last
                       /\ DOMAIN transports' = DOMAIN transports \ {s} ]_vars

\* a session ended by its close notification while another is registered
C10_Witness ==
    /\ \E t \in 1..Len(objs) :
          objs[t].closed /\ objs[t].sessionId \notin deleted
    /\ DOMAIN transports # {}

====
